---- MODULE Spec2Model ----
\* A model of @trenskow/arguments-parser: the parser context returned by
\* argumentsParser() and its operations command(), options(), empty() and
\* values().  Strings are sequences of one-character strings, so that slice(),
\* indexOf(), join() and the case conversion are computed, not assumed.
EXTENDS Integers, Sequences, FiniteSets, TLC

VARIABLES
    argv,          \* the argument vector the root context was created with
    args,          \* the context's remaining argument list (closure variable)
    argvLevel,     \* the context's recursion depth
    helpUsage,     \* usage fragments accumulated so far
    helpOptions,   \* which help body is registered: "none", "commands", "options"
    pc,            \* "ready", "scan", "exited", "thrown"
    op,            \* the operation running or last run: "none", "command",
                   \* "options", "empty", "values"
    calls,         \* number of operations started so far
    callArgs,      \* args as they were when the running operation was entered
    schema,        \* the schema given to the running options() or values() call
    variadic,      \* the variadic policy of the running options() call
    shortOptions,  \* options(): the short option table (an insertion-ordered object)
    idx,           \* options(): loop index (0-based, as in the source)
    scanned,       \* options(): what the loop did with each of args[0..idx)
    data,          \* options(): raw data accumulated per key
    rest,          \* options(): tokens that are not options
    nonOptions,    \* options(): text after the first "--"
    exitCode,      \* -1 while the process runs, else the status given to process.exit
    printed,       \* what printHelp rendered: usage, body and error
    thrown,        \* the construction error thrown, if any
    validated,     \* the raw data handed to the validator by the last operation
    returned,      \* whether the last operation returned a value to its caller
    invoked,       \* what command() invoked, in order
    previous       \* what the options() call before the running one returned, if
                   \* it was made on this context with the same schema and policy

vars == << argv, args, argvLevel, helpUsage, helpOptions, pc, op, calls, callArgs, schema,
           variadic, shortOptions, idx, scanned, data, rest, nonOptions, exitCode,
           printed, thrown, validated, returned, invoked, previous >>

\* ---------------------------------------------------------------- bounds

MaxArgs == 2
MaxCalls == 2
MaxFields == 2

\* ---------------------------------------------------------------- strings

Letters == << "a","b","c","d","e","f","g","h","i","j","k","l","m",
              "n","o","p","q","r","s","t","u","v","w","x","y","z" >>
Capitals == << "A","B","C","D","E","F","G","H","I","J","K","L","M",
               "N","O","P","Q","R","S","T","U","V","W","X","Y","Z" >>

IsCapital(c) == \E i \in DOMAIN Capitals : Capitals[i] = c

ToLower(c) ==
    IF IsCapital(c)
    THEN Letters[CHOOSE i \in DOMAIN Capitals : Capitals[i] = c]
    ELSE c

ToUpper(c) ==
    IF \E i \in DOMAIN Letters : Letters[i] = c
    THEN Capitals[CHOOSE i \in DOMAIN Letters : Letters[i] = c]
    ELSE c

Min(a, b) == IF a < b THEN a ELSE b

\* String.prototype.slice / Array.prototype.slice for 0 <= from.
Slice(s, from, to) == SubSeq(s, from + 1, Min(to, Len(s)))

SliceFrom(s, from) == SubSeq(s, from + 1, Len(s))

\* Array.prototype.indexOf: the 0-based index of the first occurrence, or -1.
IndexOf(list, item) ==
    IF \E i \in DOMAIN list : list[i] = item
    THEN (CHOOSE i \in DOMAIN list : list[i] = item
                                     /\ \A j \in 1..(i - 1) : list[j] # item) - 1
    ELSE -1

\* Array.prototype.join(' ').
RECURSIVE Join(_)
Join(list) ==
    IF list = << >> THEN << >>
    ELSE IF Len(list) = 1 THEN list[1]
    ELSE list[1] \o << " " >> \o Join(Tail(list))

\* The words of an identifier: split at "-" and before every capital letter,
\* lower-cased, empty words dropped.
RECURSIVE WordsFrom(_, _, _)
WordsFrom(s, i, word) ==
    IF i > Len(s)
    THEN IF word = << >> THEN << >> ELSE << word >>
    ELSE IF s[i] = "-"
    THEN (IF word = << >> THEN << >> ELSE << word >>) \o WordsFrom(s, i + 1, << >>)
    ELSE IF IsCapital(s[i])
    THEN (IF word = << >> THEN << >> ELSE << word >>)
             \o WordsFrom(s, i + 1, << ToLower(s[i]) >>)
    ELSE WordsFrom(s, i + 1, Append(word, s[i]))

Words(s) == WordsFrom(s, 1, << >>)

Capitalize(w) == << ToUpper(w[1]) >> \o Tail(w)

RECURSIVE CamelTail(_)
CamelTail(ws) ==
    IF ws = << >> THEN << >> ELSE Capitalize(ws[1]) \o CamelTail(Tail(ws))

\* caseit(key): the command-line (kebab) form to the internal (camel) key.
caseit(s) ==
    LET ws == Words(s)
    IN  IF ws = << >> THEN << >> ELSE ws[1] \o CamelTail(Tail(ws))

RECURSIVE KebabTail(_)
KebabTail(ws) ==
    IF ws = << >> THEN << >> ELSE << "-" >> \o ws[1] \o KebabTail(Tail(ws))

\* caseit(key, 'kebab').
caseitKebab(s) ==
    LET ws == Words(s)
    IN  IF ws = << >> THEN << >> ELSE ws[1] \o KebabTail(Tail(ws))

\* ---------------------------------------------------------------- tokens

DashDash == << "-", "-" >>
HelpFlag == << "-", "-", "h", "e", "l", "p" >>
LongAll == << "-", "-", "a", "l", "l" >>
LongUser == << "-", "-", "u", "s", "e", "r" >>
ShortA == << "-", "a" >>
LogIn == << "l", "o", "g", "-", "i", "n" >>
Ctor == << "c", "o", "n", "s", "t", "r", "u", "c", "t", "o", "r" >>

Tokens == { DashDash, HelpFlag, LongAll, LongUser, ShortA, LogIn, Ctor }

ArgVectors == UNION { [1..n -> Tokens] : n \in 0..MaxArgs }

\* ---------------------------------------------------------------- values

Undefined == [defined |-> FALSE, text |-> << >>]

Defined(text) == [defined |-> TRUE, text |-> text]

\* The value an option stores: `true` for a Boolean key, else the next token.
BoolTrue == [kind |-> "boolean", str |-> << >>]

Str(token) == [kind |-> "string", str |-> token]

PropToString == << "t", "o", "S", "t", "r", "i", "n", "g" >>
PropValueOf == << "v", "a", "l", "u", "e", "O", "f" >>

\* Members every plain object inherits from Object.prototype, all functions.
ObjectPrototype == { Ctor, PropToString, PropValueOf }

\* What obj[name] is for a plain object without an own property of that name
\* when name is a member of Object.prototype: the inherited function.
Inherited(name) == [kind |-> "function", str |-> name]

NoError == [kind |-> "none", arg |-> << >>]

Error(kind, arg) == [kind |-> kind, arg |-> arg]

NothingPrinted == [usage |-> << >>, body |-> "none", error |-> NoError]

NothingThrown == [message |-> "", arg |-> << >>]

NotValidated == [called |-> FALSE, raw |-> << >>]

\* No earlier result of options() to compare with.
NoResult == [returned |-> FALSE, rest |-> << >>, nonOptions |-> Undefined]

\* An object with string keys, in insertion order: a sequence of <<key, value>>.
\* Get answers << >> for a missing key; every stored value is a non-empty
\* string, so << >> is exactly the falsy case of the source's tests.
Get(obj, key) ==
    IF \E i \in DOMAIN obj : obj[i][1] = key
    THEN obj[CHOOSE i \in DOMAIN obj : obj[i][1] = key][2]
    ELSE << >>

Truthy(value) == value # << >>

Set(obj, key, value) ==
    IF \E i \in DOMAIN obj : obj[i][1] = key
    THEN [i \in DOMAIN obj |-> IF obj[i][1] = key THEN << key, value >> ELSE obj[i]]
    ELSE Append(obj, << key, value >>)

\* ---------------------------------------------------------------- schemas

KeyAll == << "a", "l", "l" >>
KeyUser == << "u", "s", "e", "r" >>
KeyA == << "a" >>
AliasA == << "a" >>
AliasU == << "u" >>
NoAlias == << >>
RootKeyPath == << >>

Entry(keyPath, type, short) == [keyPath |-> keyPath, type |-> type, short |-> short]

\* { all: Boolean (-a), user: String (-u) }
SchemaPlain == << Entry(KeyAll, "Boolean", AliasA), Entry(KeyUser, "String", AliasU) >>
\* { all: Boolean (-a), user: String (-a) }: one alias declared twice
SchemaDup == << Entry(KeyAll, "Boolean", AliasA), Entry(KeyUser, "String", AliasA) >>
\* { a: Boolean (-u), all: Boolean (-a) }: distinct aliases, one equal to a key-path
SchemaClash == << Entry(KeyA, "Boolean", AliasU), Entry(KeyAll, "Boolean", AliasA) >>
\* { a: Boolean }: no alias
SchemaFlag == << Entry(KeyA, "Boolean", NoAlias) >>
\* { valueOf: Boolean (-a) }: a key-path that names a member of Object.prototype
SchemaProto == << Entry(PropValueOf, "Boolean", AliasA) >>

Schemas == { SchemaPlain, SchemaDup, SchemaClash, SchemaFlag, SchemaProto }

\* options.variadic: "" is the option left out.
Policies == { "", "allow", "ignore" }

\* keyPaths(schema).all().filter((keyPath) => keyPath)
allKeyPaths(sch) == [i \in DOMAIN sch |-> sch[i].keyPath]

\* keyPaths(schema).all(): the declared key-paths and the root key-path ''.
KeyPathsAll(sch) == { RootKeyPath } \cup { sch[i].keyPath : i \in DOMAIN sch }

\* keyPaths(schema).get(key).type
TypeOf(sch, key) ==
    IF key = RootKeyPath THEN "Object"
    ELSE sch[CHOOSE i \in DOMAIN sch : sch[i].keyPath = key].type

\* ---------------------------------------------------------------- help

\* `${opening}${name}${closing}` with the default placeholder '<>'.
Placeholder(name) == << "<" >> \o name \o << ">" >>

\* helpUsage of a fresh context: [strings?.help?.usage || 'Usage:', base].
BaseUsage == << << "Usage:" >>, << "base" >> >>

\* ---------------------------------------------------------------- options()

\* The loop that fills shortOptions: the table is read by alias and written by
\* key-path.  Answers the table, or the alias the loop threw for.
RECURSIVE BuildShortOptions(_, _, _)
BuildShortOptions(sch, i, table) ==
    IF i > Len(sch) THEN [threw |-> FALSE, alias |-> << >>, table |-> table]
    ELSE IF ~Truthy(sch[i].short) THEN BuildShortOptions(sch, i + 1, table)
    ELSE IF Truthy(Get(table, sch[i].short))
    THEN [threw |-> TRUE, alias |-> sch[i].short, table |-> table]
    ELSE BuildShortOptions(sch, i + 1, Set(table, sch[i].keyPath, sch[i].short))

\* Object.fromEntries(Object.entries(obj).map(([key, value]) => [value, key]))
RECURSIVE InvertFrom(_, _, _)
InvertFrom(obj, i, acc) ==
    IF i > Len(obj) THEN acc
    ELSE InvertFrom(obj, i + 1, Set(acc, obj[i][2], obj[i][1]))

Invert(obj) == InvertFrom(obj, 1, << >>)

\* The key an option token names, given the (just inverted) short option table.
ResolveKey(token, table) ==
    LET key == SliceFrom(token, 1)
    IN  IF Slice(token, 1, 2) = << "-" >> THEN caseit(SliceFrom(token, 2))
        ELSE IF Truthy(Get(table, key)) THEN caseit(Get(table, key))
        ELSE key

EmptyData == [k \in {} |-> Undefined]

\* data[key] = value when typeof data[key] is 'undefined'; push when data[key]
\* is an array; else data[key] = [data[key], value].  data starts as {}, so for
\* a key that is a member of Object.prototype data[key] is the inherited
\* function, not undefined, before the first assignment.
Accumulate(d, key, value) ==
    IF key \notin DOMAIN d /\ key \notin ObjectPrototype
    THEN [k \in DOMAIN d \cup {key} |->
             IF k = key THEN [isArray |-> FALSE, items |-> << value >>] ELSE d[k]]
    ELSE IF key \notin DOMAIN d
    THEN [k \in DOMAIN d \cup {key} |->
             IF k = key THEN [isArray |-> TRUE, items |-> << Inherited(key), value >>]
             ELSE d[k]]
    ELSE IF d[key].isArray
    THEN [d EXCEPT ![key] = [isArray |-> TRUE, items |-> Append(d[key].items, value)]]
    ELSE [d EXCEPT ![key] = [isArray |-> TRUE, items |-> << d[key].items[1], value >>]]

\* printHelp(error): render usage, body and error, then process.exit.
printHelp(usage, body, error) ==
    /\ pc' = "exited"
    /\ exitCode' = IF error.kind # "none" THEN 1 ELSE 0
    /\ printed' = [usage |-> usage, body |-> body, error |-> error]

\* checkHelp(): whether the first remaining token is --help.
checkHelp(list) == list # << >> /\ list[1] = HelpFlag

\* A version of SplitArgs that forgets to cut the list at the '--'.
SplitArgsKeepAll(list) == list

\* args.slice(0, nonOptionsIndex) when the list holds a '--', else the list.
SplitArgs(list) ==
    LET nonOptionsIndex == IndexOf(list, DashDash)
    IN  IF nonOptionsIndex > -1 THEN Slice(list, 0, nonOptionsIndex) ELSE list

\* args.slice(nonOptionsIndex + 1).join(' ') when the list holds a '--'.
NonOptions(list) ==
    LET nonOptionsIndex == IndexOf(list, DashDash)
    IN  IF nonOptionsIndex > -1
        THEN Defined(Join(SliceFrom(list, nonOptionsIndex + 1)))
        ELSE Undefined

\* A version of IsBoolean for which every option takes a value.
IsBooleanNever(sch, key) == FALSE

\* keyPaths(schema).get(key).type === Boolean
IsBoolean(sch, key) == TypeOf(sch, key) = "Boolean"

\* A version of ArgumentMissing that only looks at the length of the list.
ArgumentMissingLengthOnly(list, i) == Len(list) <= i + 1

\* args.length <= idx + 1 || args[idx + 1].slice(0, 2) === '--'
ArgumentMissing(list, i) ==
    Len(list) <= i + 1 \/ Slice(list[i + 2], 0, 2) = DashDash

\* What the loop did with one token.
Scanned(role, key) == [role |-> role, key |-> key]

\* options(schema, { variadic }) up to the start of the scanning loop.
OptionsCall(sch, policy) ==
    /\ pc = "ready"
    /\ calls < MaxCalls
    /\ LET newArgs == SplitArgs(args)
           usage == Append(helpUsage, Placeholder(<< "options" >>))
           built == BuildShortOptions(sch, 1, << >>)
           body == IF allKeyPaths(sch) # << >> THEN "options" ELSE helpOptions
       IN  /\ op' = "options"
           /\ calls' = calls + 1
           /\ callArgs' = args
           /\ schema' = sch
           /\ variadic' = policy
           /\ scanned' = << >>
           /\ nonOptions' = NonOptions(args)
           /\ args' = newArgs
           /\ helpUsage' = usage
           /\ shortOptions' = built.table
           /\ idx' = 0
           /\ data' = EmptyData
           /\ rest' = << >>
           /\ validated' = NotValidated
           /\ returned' = FALSE
           /\ previous' = IF op = "options" /\ returned /\ schema = sch
                               /\ variadic = policy
                            THEN [returned |-> TRUE, rest |-> rest,
                                  nonOptions |-> nonOptions]
                            ELSE NoResult
           /\ IF built.threw
              THEN /\ pc' = "thrown"
                   /\ thrown' = [message |-> "Short option already used.",
                                 arg |-> built.alias]
                   /\ UNCHANGED << helpOptions, exitCode, printed >>
              ELSE /\ helpOptions' = body
                   /\ thrown' = NothingThrown
                   /\ IF checkHelp(newArgs)
                      THEN printHelp(usage, body, NoError)
                      ELSE /\ pc' = "scan"
                           /\ UNCHANGED << exitCode, printed >>
    /\ UNCHANGED << argv, argvLevel, invoked >>

\* One pass of the scanning loop of options().
OptionsScan ==
    /\ pc = "scan"
    /\ idx < Len(args)
    /\ LET token == args[idx + 1]
           table == Invert(shortOptions)
           key == ResolveKey(token, table)
       IN  IF Slice(token, 0, 1) # << "-" >>
           THEN /\ rest' = Append(rest, token)
                /\ idx' = idx + 1
                /\ scanned' = Append(scanned, Scanned("rest", << >>))
                /\ UNCHANGED << shortOptions, data, pc, exitCode, printed >>
           ELSE /\ shortOptions' = table
                /\ IF key \notin KeyPathsAll(schema)
                   THEN /\ printHelp(helpUsage, helpOptions,
                                     Error("Unknown option", token))
                        /\ UNCHANGED << idx, scanned, data, rest >>
                   ELSE IF IsBoolean(schema, key)
                   THEN /\ data' = Accumulate(data, key, BoolTrue)
                        /\ idx' = idx + 1
                        /\ scanned' = Append(scanned, Scanned("option", key))
                        /\ UNCHANGED << rest, pc, exitCode, printed >>
                   ELSE IF ArgumentMissing(args, idx)
                   THEN /\ printHelp(helpUsage, helpOptions,
                                     Error("Argument missing for option", token))
                        /\ UNCHANGED << idx, scanned, data, rest >>
                   ELSE /\ data' = Accumulate(data, key, Str(args[idx + 2]))
                        /\ idx' = idx + 2
                        /\ scanned' = scanned \o << Scanned("option", key),
                                                    Scanned("value", key) >>
                        /\ UNCHANGED << rest, pc, exitCode, printed >>
    /\ UNCHANGED << argv, args, argvLevel, helpUsage, helpOptions, op, calls, callArgs,
                    schema, variadic, nonOptions, thrown, validated, returned,
                    invoked, previous >>

\* options() after the loop: the variadic policy, the validator, the result.
OptionsFinish ==
    /\ pc = "scan"
    /\ idx >= Len(args)
    /\ IF rest # << >> /\ variadic \notin { "allow", "ignore" }
       THEN /\ printHelp(helpUsage, helpOptions, Error("Unexpected argument", args[1]))
            /\ UNCHANGED << rest, validated, returned >>
       ELSE /\ rest' = IF variadic = "ignore" THEN << >> ELSE rest
            /\ validated' = [called |-> TRUE, raw |-> data]
            /\ \E valid \in BOOLEAN :
                   IF valid
                   THEN /\ pc' = "ready"
                        /\ returned' = TRUE
                        /\ UNCHANGED << exitCode, printed >>
                   ELSE /\ printHelp(helpUsage, helpOptions, Error("validation", << >>))
                        /\ UNCHANGED returned
    /\ UNCHANGED << argv, args, argvLevel, helpUsage, helpOptions, op, calls, callArgs,
                    schema, variadic, shortOptions, idx, scanned, data, nonOptions,
                    thrown, invoked, previous >>

\* The variables of options() hold the locals and the result of the last
\* options() call; any other operation starts without them.
NoOptionsCall ==
    /\ variadic' = ""
    /\ shortOptions' = << >>
    /\ idx' = 0
    /\ scanned' = << >>
    /\ data' = EmptyData
    /\ rest' = << >>
    /\ nonOptions' = Undefined
    /\ previous' = NoResult

\* ---------------------------------------------------------------- empty()

EmptyCall ==
    /\ pc = "ready"
    /\ calls < MaxCalls
    /\ op' = "empty"
    /\ calls' = calls + 1
    /\ callArgs' = args
    /\ schema' = << >>
    /\ validated' = NotValidated
    /\ IF checkHelp(args)
       THEN /\ printHelp(helpUsage, helpOptions, NoError)
            /\ returned' = FALSE
       ELSE IF Len(args) > 0
       THEN /\ printHelp(helpUsage, helpOptions, Error("Unexpected argument", args[1]))
            /\ returned' = FALSE
       ELSE /\ returned' = TRUE
            /\ UNCHANGED << pc, exitCode, printed >>
    /\ NoOptionsCall
    /\ UNCHANGED << argv, args, argvLevel, helpUsage, helpOptions, thrown, invoked >>

\* ---------------------------------------------------------------- values()

FieldNames == << << "n", "a", "m", "e" >>, << "g", "r", "e", "e", "t" >>,
                 << "t", "o" >>, << "c", "c" >> >>

Field(keyPath, required, type) ==
    [keyPath |-> keyPath, required |-> required, type |-> type]

\* What a field may be: required or not, of type String or (not required) Number.
FieldKinds == { << TRUE, "String" >>, << FALSE, "String" >>, << FALSE, "Number" >> }

\* The flat schemas of at most MaxFields fields.
ValueSchemas ==
    UNION { { [i \in 1..n |-> Field(FieldNames[i], kinds[i][1], kinds[i][2])] :
                kinds \in [1..n -> FieldKinds] } :
            n \in 0..MaxFields }

\* let lastNonRequiredIndex = -1; it is never assigned again.
lastNonRequiredIndex == -1

\* A version of ValuesFields without the check of the order of required fields.
RECURSIVE ValuesFieldsNoOrderCheck(_, _, _)
ValuesFieldsNoOrderCheck(sch, i, usage) ==
    IF i >= Len(sch) THEN [message |-> "", usage |-> usage]
    ELSE IF sch[i + 1].type # "String"
    THEN [message |-> "Schema must be an object of strings.", usage |-> usage]
    ELSE ValuesFieldsNoOrderCheck(sch, i + 1,
             Append(usage, Placeholder(caseitKebab(sch[i + 1].keyPath))))

\* The forEach over the fields (i is its 0-based idx): the error it throws, if
\* any, and helpUsage as the fields passed so far have extended it.
RECURSIVE ValuesFields(_, _, _)
ValuesFields(sch, i, usage) ==
    IF i >= Len(sch) THEN [message |-> "", usage |-> usage]
    ELSE IF sch[i + 1].required /\ i > lastNonRequiredIndex + 1
    THEN [message |-> "Required arguments must come first.", usage |-> usage]
    ELSE IF sch[i + 1].type # "String"
    THEN [message |-> "Schema must be an object of strings.", usage |-> usage]
    ELSE ValuesFields(sch, i + 1,
                      Append(usage, Placeholder(caseitKebab(sch[i + 1].keyPath))))

\* Object.fromEntries(allKeyPaths.map((keyPath, idx) => [keyPath, args[idx]]))
Bind(sch, list) ==
    [i \in DOMAIN sch |->
        [keyPath |-> sch[i].keyPath,
         value |-> IF i <= Len(list) THEN Defined(list[i]) ELSE Undefined]]

ValuesCall(sch) ==
    /\ pc = "ready"
    /\ calls < MaxCalls
    /\ LET fields == ValuesFields(sch, 0, helpUsage)
       IN  /\ op' = "values"
           /\ calls' = calls + 1
           /\ callArgs' = args
           /\ schema' = sch
           /\ helpUsage' = fields.usage
           /\ IF fields.message # ""
              THEN /\ pc' = "thrown"
                   /\ thrown' = [message |-> fields.message, arg |-> << >>]
                   /\ validated' = NotValidated
                   /\ returned' = FALSE
                   /\ UNCHANGED << exitCode, printed >>
              ELSE /\ thrown' = NothingThrown
                   /\ IF checkHelp(args)
                      THEN /\ printHelp(fields.usage, helpOptions, NoError)
                           /\ validated' = NotValidated
                           /\ returned' = FALSE
                      ELSE /\ validated' = [called |-> TRUE, raw |-> Bind(sch, args)]
                           /\ \E valid \in BOOLEAN :
                                  IF valid
                                  THEN /\ returned' = TRUE
                                       /\ UNCHANGED << pc, exitCode, printed >>
                                  ELSE /\ printHelp(fields.usage, helpOptions,
                                                    Error("validation", << >>))
                                       /\ returned' = FALSE
    /\ NoOptionsCall
    /\ UNCHANGED << argv, args, argvLevel, helpOptions, invoked >>

\* ---------------------------------------------------------------- command()

CmdLogIn == << "l", "o", "g", "I", "n" >>
\* The command tables: the names of the declared handlers.
CommandTables == { { CmdLogIn }, { CmdLogIn, KeyAll } }

\* commands[tool]: the declared handler, else an inherited member, else undefined.
Lookup(commands, tool) ==
    IF tool \in commands THEN "handler"
    ELSE IF tool \in ObjectPrototype THEN "inherited"
    ELSE "undefined"

\* A version of ChildArgs that hands the child context the parent's list as it is.
ChildArgsKeepAll(list) == list

\* args.slice(1): the remaining tokens of the child context.
ChildArgs(list) == SliceFrom(list, 1)

CommandCall(commands) ==
    /\ pc = "ready"
    /\ calls < MaxCalls
    /\ LET usage == Append(helpUsage, Placeholder(<< "command" >>))
           tool == caseit(args[1])
           found == Lookup(commands, tool)
       IN  /\ op' = "command"
           /\ callArgs' = args
           /\ schema' = << >>
           /\ validated' = NotValidated
           /\ returned' = (args # << >> /\ ~checkHelp(args) /\ found = "inherited")
           /\ IF args = << >> \/ checkHelp(args)
              THEN /\ printHelp(usage, "commands", NoError)
                   /\ helpUsage' = usage
                   /\ helpOptions' = "commands"
                   /\ calls' = calls + 1
                   /\ UNCHANGED << args, argvLevel, invoked >>
              ELSE IF found = "undefined"
              THEN /\ printHelp(usage, "commands", Error("Command not found", args[1]))
                   /\ helpUsage' = usage
                   /\ helpOptions' = "commands"
                   /\ calls' = calls + 1
                   /\ UNCHANGED << args, argvLevel, invoked >>
              ELSE /\ invoked' = Append(invoked,
                                        [tool |-> tool, declared |-> found = "handler",
                                         args |-> ChildArgs(args),
                                         argvLevel |-> argvLevel + 1])
                   /\ IF found = "handler"
                      THEN \* the handler runs on the child context
                           /\ args' = ChildArgs(args)
                           /\ argvLevel' = argvLevel + 1
                           /\ helpUsage' = BaseUsage
                           /\ helpOptions' = "none"
                           /\ calls' = calls + 1
                      ELSE \* the inherited function returns at once
                           /\ helpUsage' = usage
                           /\ helpOptions' = "commands"
                           /\ calls' = calls + 1
                           /\ UNCHANGED << args, argvLevel >>
                   /\ UNCHANGED << pc, exitCode, printed >>
    /\ NoOptionsCall
    /\ UNCHANGED << argv, thrown >>

\* The catch of command(): an error thrown while a handler runs is printed and
\* the process exits with status 1.
CommandCatch ==
    /\ pc = "thrown"
    /\ argvLevel > 0
    /\ pc' = "exited"
    /\ exitCode' = 1
    /\ UNCHANGED << argv, args, argvLevel, helpUsage, helpOptions, op, calls, callArgs,
                    schema, variadic, shortOptions, idx, scanned, data, rest,
                    nonOptions, printed, thrown, validated, returned, invoked,
                    previous >>

\* ---------------------------------------------------------------- specification

Init ==
    /\ argv \in ArgVectors
    /\ args = argv
    /\ argvLevel = 0
    /\ helpUsage = BaseUsage
    /\ helpOptions = "none"
    /\ pc = "ready"
    /\ op = "none"
    /\ calls = 0
    /\ callArgs = << >>
    /\ schema = << >>
    /\ variadic = ""
    /\ shortOptions = << >>
    /\ idx = 0
    /\ scanned = << >>
    /\ data = EmptyData
    /\ rest = << >>
    /\ nonOptions = Undefined
    /\ exitCode = -1
    /\ printed = NothingPrinted
    /\ thrown = NothingThrown
    /\ validated = NotValidated
    /\ returned = FALSE
    /\ invoked = << >>
    /\ previous = NoResult

Next ==
    \/ \E sch \in Schemas, policy \in Policies : OptionsCall(sch, policy)
    \/ OptionsScan
    \/ OptionsFinish
    \/ EmptyCall
    \/ \E sch \in ValueSchemas : ValuesCall(sch)
    \/ \E commands \in CommandTables : CommandCall(commands)
    \/ CommandCatch

Spec == Init /\ [][Next]_vars

\* ---------------------------------------------------------------- properties

StartsWith(s, prefix) == Len(s) >= Len(prefix) /\ SubSeq(s, 1, Len(prefix)) = prefix

Declares(sch, key) == \E i \in DOMAIN sch : sch[i].keyPath = key

HasAlias(sch, i) == sch[i].short # NoAlias

HasDuplicateAlias(sch) ==
    \E i, j \in DOMAIN sch : i # j /\ HasAlias(sch, i) /\ sch[i].short = sch[j].short

UniqueAlias(sch, i) ==
    HasAlias(sch, i) /\ \A j \in DOMAIN sch : sch[j].short = sch[i].short => j = i

ShortToken(alias) == << "-" >> \o alias

LongToken(keyPath) == DashDash \o caseitKebab(keyPath)

\* The value items recorded under a key.
Items(key) == IF key \in DOMAIN data THEN data[key].items ELSE << >>

\* C1: a schema in which two key-paths declare the same short alias makes
\* options() throw 'Short option ... already used' before anything is scanned,
\* rendered or returned.
C1_DuplicateShortThrows ==
    (op = "options" /\ HasDuplicateAlias(schema)) =>
        /\ pc \in { "thrown", "exited" }
        /\ thrown.message = "Short option already used."
        /\ scanned = << >>
        /\ printed = NothingPrinted
        /\ ~validated.called
        /\ ~returned

\* C2: a token -<a>, a being the alias registered by key-path k, resolves to k
\* wherever it stands: it is never reported as an unknown option, and where the
\* loop took it as an option it stored the value under k.
C2_ShortAliasResolves ==
    op = "options" =>
        \A i \in DOMAIN schema :
            UniqueAlias(schema, i) =>
                /\ ~(/\ pc = "exited"
                     /\ printed.error = Error("Unknown option",
                                              ShortToken(schema[i].short)))
                /\ \A p \in DOMAIN scanned :
                       (/\ scanned[p].role = "option"
                        /\ args[p] = ShortToken(schema[i].short))
                           => scanned[p].key = schema[i].keyPath

\* The two forms of an option token: --<name> with a declared name, -<alias>
\* with a registered alias.
DeclaredForm(sch, token) ==
    \/ /\ StartsWith(token, DashDash)
       /\ Declares(sch, caseit(SliceFrom(token, 2)))
    \/ /\ ~StartsWith(token, DashDash)
       /\ \E i \in DOMAIN sch : HasAlias(sch, i) /\ token = ShortToken(sch[i].short)

\* C3: the loop takes a dash-prefixed token as an option only if it is
\* --<declared name> or -<registered alias>.
C3_OnlyDeclaredForms ==
    op = "options" =>
        \A p \in DOMAIN scanned :
            scanned[p].role = "option" => DeclaredForm(schema, args[p])

\* C4: the 'Unexpected argument' error of options() names rest[0], the first
\* leftover token, and the process exits with status 1.
C4_UnexpectedNamesFirstLeftover ==
    (op = "options" /\ pc = "exited" /\ printed.error.kind = "Unexpected argument") =>
        /\ exitCode = 1
        /\ rest # << >>
        /\ printed.error.arg = rest[1]

RequiredAfterOptional(sch) ==
    \E i, j \in DOMAIN sch : i < j /\ ~sch[i].required /\ sch[j].required

RequiredPrefix(sch) ==
    \A i, j \in DOMAIN sch : (i < j /\ sch[j].required) => sch[i].required

AllStrings(sch) == \A i \in DOMAIN sch : sch[i].type = "String"

NothingBound == ~validated.called /\ ~returned /\ printed = NothingPrinted

\* C5 as claimed: a required field after a non-required one always fails with
\* 'Required arguments must come first.', nothing bound or validated.
C5_RequiredAfterOptionalThrows ==
    (op = "values" /\ RequiredAfterOptional(schema)) =>
        /\ pc \in { "thrown", "exited" }
        /\ thrown.message = "Required arguments must come first."
        /\ NothingBound

\* The first field, other than the very first one, that is required.
FirstLateRequired(sch) ==
    CHOOSE j \in DOMAIN sch :
        /\ j > 1
        /\ sch[j].required
        /\ \A i \in 2..(j - 1) : ~sch[i].required

\* C5 as amended: a required field after a non-required one always fails at
\* construction time, nothing bound or validated; the error is 'Required
\* arguments must come first.' when every field declared before the offending
\* required field is a string, else 'Schema must be an object of strings.'
C5_RequiredAfterOptionalFails ==
    (op = "values" /\ RequiredAfterOptional(schema)) =>
        /\ pc \in { "thrown", "exited" }
        /\ NothingBound
        /\ thrown.message =
               IF \A i \in 1..(FirstLateRequired(schema) - 1) :
                      schema[i].type = "String"
               THEN "Required arguments must come first."
               ELSE "Schema must be an object of strings."

C5_Witness ==
    /\ op = "values"
    /\ RequiredAfterOptional(schema)
    /\ pc = "thrown"
    /\ thrown.message = "Required arguments must come first."

\* C6: a string-typed schema whose required fields form a prefix is accepted:
\* no construction error, and field i is bound to token i.
C6_RequiredPrefixAccepted ==
    (op = "values" /\ AllStrings(schema) /\ RequiredPrefix(schema)) =>
        /\ thrown = NothingThrown
        /\ validated.called =>
               \A i \in DOMAIN schema :
                   validated.raw[i].value =
                       IF i <= Len(callArgs) THEN Defined(callArgs[i]) ELSE Undefined

\* C7: command() invokes nothing but declared commands.
C7_OnlyDeclaredInvoked ==
    \A i \in DOMAIN invoked : invoked[i].declared

\* The number of tokens of a list before its first '--' (all of them without one).
RECURSIVE OptionStreamLen(_)
OptionStreamLen(list) ==
    IF list = << >> \/ list[1] = DashDash THEN 0
    ELSE 1 + OptionStreamLen(Tail(list))

C9_ValueTakingOption ==
    op = "options" =>
        /\ \A p \in DOMAIN scanned :
               (scanned[p].role = "option" /\ TypeOf(schema, scanned[p].key) # "Boolean")
                   => /\ p < Len(scanned)
                      /\ scanned[p + 1] = Scanned("value", scanned[p].key)
                      /\ ~StartsWith(args[p + 1], DashDash)
                      /\ \E v \in DOMAIN Items(scanned[p].key) :
                             Items(scanned[p].key)[v] = Str(args[p + 1])
        /\ \A p \in DOMAIN scanned :
               scanned[p].role = "value"
                   => /\ p > 1
                      /\ scanned[p - 1] = Scanned("option", scanned[p].key)
                      /\ TypeOf(schema, scanned[p].key) # "Boolean"
        /\ (pc = "exited" /\ printed.error.kind = "Argument missing for option")
               => /\ exitCode = 1
                  /\ idx < Len(args)
                  /\ Len(scanned) = idx
                  /\ printed.error.arg = args[idx + 1]
                  /\ (idx + 1 = Len(args) \/ StartsWith(args[idx + 2], DashDash))

C9_Witness ==
    /\ op = "options"
    /\ returned
    /\ \E p \in DOMAIN scanned : scanned[p].role = "value"

RECURSIVE ValuesSeen(_, _)
ValuesSeen(key, p) ==
    IF p = 0 THEN << >>
    ELSE IF scanned[p] # Scanned("option", key) THEN ValuesSeen(key, p - 1)
    ELSE Append(ValuesSeen(key, p - 1),
                IF TypeOf(schema, key) = "Boolean" THEN BoolTrue ELSE Str(args[p + 1]))

\* C11: the raw data handed to the validator by options() holds, for every
\* key-path, the values of its occurrences in first-seen order: no entry without
\* an occurrence, the scalar after one occurrence, the sequence of all the
\* values after two or more.
C11_AccumulatesInOrder ==
    (op = "options" /\ validated.called) =>
        \A key \in KeyPathsAll(schema) :
            LET seen == ValuesSeen(key, Len(scanned))
            IN  IF seen = << >> THEN key \notin DOMAIN validated.raw
                ELSE /\ key \in DOMAIN validated.raw
                     /\ validated.raw[key].items = seen
                     /\ validated.raw[key].isArray <=> Len(seen) >= 2

\* Whether the operation last entered found --help as the first remaining
\* token, its schema being one the specification allows: for values() string
\* fields with the required ones first, for options() no alias declared twice.
HelpAsked ==
    /\ op \in { "command", "options", "empty", "values" }
    /\ callArgs # << >>
    /\ callArgs[1] = HelpFlag
    /\ op = "values" => (AllStrings(schema) /\ RequiredPrefix(schema))
    /\ op = "options" => ~HasDuplicateAlias(schema)

\* C12: an operation that finds --help as the first remaining token renders
\* help without an error line and exits with status 0 before anything else:
\* nothing is thrown, scanned, validated or returned, and no handler is invoked.
C12_HelpFirst ==
    HelpAsked =>
        /\ pc = "exited"
        /\ exitCode = 0
        /\ printed.error = NoError
        /\ thrown = NothingThrown
        /\ scanned = << >>
        /\ ~validated.called
        /\ ~returned
        /\ \A i \in DOMAIN invoked : invoked[i].argvLevel <= argvLevel

\* C13: options() called again on the same context with the same schema and
\* policy returns the same rest and the same nonOptions as the call before.
C13_SameResultTwice ==
    (op = "options" /\ returned /\ previous.returned) =>
        /\ rest = previous.rest
        /\ nonOptions = previous.nonOptions

\* The number of declared handlers command() invoked before its i-th invocation.
DeclaredBefore(i) ==
    Cardinality({ j \in 1..(i - 1) : invoked[j].declared })

\* C14: every dispatch of command() invokes one function with a child context
\* that holds the parent's tokens without the leading one at the parent's depth
\* plus one, so that depth plus remaining tokens never exceeds the length of the
\* initial vector; command() on an empty list renders the command list and
\* exits with status 0 without invoking anything.
C14_DispatchChainBounded ==
    /\ argvLevel + Len(args) <= Len(argv)
    /\ argvLevel = Cardinality({ i \in DOMAIN invoked : invoked[i].declared })
    /\ \A i \in DOMAIN invoked :
           /\ invoked[i].argvLevel = DeclaredBefore(i) + 1
           /\ invoked[i].argvLevel + Len(invoked[i].args) <= Len(argv)
    /\ (op = "command" /\ callArgs # << >> /\ pc = "ready") =>
           /\ invoked # << >>
           /\ invoked[Len(invoked)].args = Tail(callArgs)
           /\ invoked[Len(invoked)].declared =>
                  /\ args = Tail(callArgs)
                  /\ argvLevel = invoked[Len(invoked)].argvLevel
    /\ (op = "command" /\ callArgs = << >>) =>
           /\ pc = "exited"
           /\ exitCode = 0
           /\ printed.body = "commands"
           /\ printed.error = NoError
           /\ \A i \in DOMAIN invoked : invoked[i].argvLevel <= argvLevel

C14_Witness ==
    /\ op = "command"
    /\ callArgs = << >>
    /\ argvLevel >= 1
    /\ argvLevel = Len(argv)
    /\ exitCode = 0

====
